---------------------------- MODULE Spec2Model ----------------------------
(***************************************************************************)
(* A model of batch_print.py: the hot-folder print service.                *)
(*                                                                         *)
(* Paths, file names and folder names are Python strings; they are         *)
(* modelled as sequences of one-character strings, so that basename,       *)
(* join, splitext, the substring test of on_created and the ordering used  *)
(* by sorted() are computed as Python computes them.                       *)
(***************************************************************************)
EXTENDS Naturals, Sequences, FiniteSets, Bags, TLC

(***************************************************************************)
(* Bounds of the model.                                                    *)
(***************************************************************************)
\* the number of steps the environment takes in a run: a file created in a
\* watched folder, appended to, or removed from it
MaxEnvSteps == 3
\* the same, in the runs that start with files in the Success and Error folders
MaxCollideSteps == 2
\* the same, in the runs that start with a file left over in the watched folder
MaxLeftoverSteps == 2
\* environment steps with two files in the watched folder from the start
MaxVanishSteps == 2
\* environment steps with a default printer that changes
MaxDefaultSteps == 3
\* environment steps with hot folders whose directories coincide
MaxRoleSteps == 2
\* environment steps with two hot folders
MaxTwoSteps == 2

(***************************************************************************)
(* Python values.                                                          *)
(***************************************************************************)
\* Python's None (printer_name, get_default_printer)
None == "<None>"
\* file names the environment drops into a watched directory
Names == {<<"a", ".", "t">>, <<"b", ".", "t">>}
\* file names one of which begins with the name of the Success folder
FilterNames == {<<"a", ".", "t">>, <<"S", "a", ".", "t">>}
\* the file names of the alphabetical sorting test
SortNames ==
    {<<"z", "e", "b", "r", "a", ".", "t", "x", "t">>,
     <<"a", "p", "p", "l", "e", ".", "t", "x", "t">>,
     <<"1", "2", "3", ".", "t", "x", "t">>,
     <<"b", "a", "n", "a", "n", "a", ".", "t", "x", "t">>}

\* ord(c) for the characters the model uses
Ord(c) ==
    CASE c = "." -> 46
      [] c = "/" -> 47
      [] c = "0" -> 48
      [] c = "1" -> 49
      [] c = "2" -> 50
      [] c = "3" -> 51
      [] c = "4" -> 52
      [] c = "5" -> 53
      [] c = "6" -> 54
      [] c = "7" -> 55
      [] c = "8" -> 56
      [] c = "9" -> 57
      [] c = "E" -> 69
      [] c = "S" -> 83
      [] c = "_" -> 95
      [] c = "a" -> 97
      [] c = "b" -> 98
      [] c = "e" -> 101
      [] c = "l" -> 108
      [] c = "n" -> 110
      [] c = "p" -> 112
      [] c = "r" -> 114
      [] c = "t" -> 116
      [] c = "w" -> 119
      [] c = "x" -> 120
      [] c = "z" -> 122

\* str.__lt__: lexicographic comparison by code point
RECURSIVE StrLess(_, _)
StrLess(a, b) ==
    IF b = << >> THEN FALSE
    ELSE IF a = << >> THEN TRUE
    ELSE IF Head(a) = Head(b) THEN StrLess(Tail(a), Tail(b))
    ELSE Ord(Head(a)) < Ord(Head(b))

\* sub in s (str.__contains__); the empty string is in every string
Contains(sub, s) ==
    \E i \in 1..(Len(s) + 1) :
        /\ i + Len(sub) - 1 <= Len(s)
        /\ SubSeq(s, i, i + Len(sub) - 1) = sub

\* s.rfind(c) + 1: the position (1-based) of the last c in s, 0 when absent
RFind(s, c) ==
    LET hits == {i \in 1..Len(s) : s[i] = c}
    IN  IF hits = {} THEN 0 ELSE CHOOSE i \in hits : \A j \in hits : j <= i

\* os.path.basename(p)
basename(p) == SubSeq(p, RFind(p, "/") + 1, Len(p))

\* os.path.join(a, b)
join(a, b) ==
    IF b # << >> /\ Head(b) = "/" THEN b
    ELSE IF a = << >> \/ a[Len(a)] = "/" THEN a \o b
    ELSE a \o <<"/">> \o b

\* os.path.splitext(filename) for a name without separator: the extension
\* starts at the last dot, unless only dots precede it
splitext(filename) ==
    LET dot == RFind(filename, ".")
    IN  IF dot > 0 /\ \E i \in 1..(dot - 1) : filename[i] # "."
        THEN <<SubSeq(filename, 1, dot - 1), SubSeq(filename, dot, Len(filename))>>
        ELSE <<filename, << >> >>

Digit(d) == <<"0", "1", "2", "3", "4", "5", "6", "7", "8", "9">>[d + 1]

\* str(n) for n >= 0
RECURSIVE str(_)
str(n) == IF n < 10 THEN <<Digit(n)>> ELSE str(n \div 10) \o <<Digit(n % 10)>>


\* list.append(x): what add would be if pending_files were a list
PySetAdd_append(B, x) == B (+) SetToBag({x})

\* set.add(x)
PySetAdd(B, x) == IF BagIn(x, B) THEN B ELSE B (+) SetToBag({x})

\* set.discard(x)
PySetDiscard(B, x) == [y \in (DOMAIN B) \ {x} |-> B[y]]

\* one step of a stable sort: x goes before the first element whose key is
\* greater than x's key
SortInsert(s, x) ==
    LET later == {i \in 1..Len(s) : StrLess(basename(x), basename(s[i]))}
        at == IF later = {} THEN Len(s) + 1
              ELSE CHOOSE i \in later : \A j \in later : i <= j
    IN  SubSeq(s, 1, at - 1) \o <<x>> \o SubSeq(s, at, Len(s))

\* a drain that takes the paths in the order the set lists them
sorted_unsorted(lst) == lst

\* sorted(lst, key=lambda x: os.path.basename(x))
RECURSIVE sorted(_)
sorted(lst) ==
    IF lst = << >> THEN << >>
    ELSE SortInsert(sorted(SubSeq(lst, 1, Len(lst) - 1)), lst[Len(lst)])

(***************************************************************************)
(* Configuration.                                                          *)
(***************************************************************************)
\* HotFolderConfig.__init__ (the directories it creates hold no files)
HotFolderConfig(name, watch_path, printer_name, success_folder, error_folder) ==
    [name |-> name,
     watch_path |-> watch_path,
     printer_name |-> IF printer_name \notin {None, ""} THEN printer_name ELSE None,
     success_folder |-> success_folder,
     error_folder |-> error_folder]

\* BatchPrintService.load_config: the hot_folders list of a parsed config.json;
\* a missing "printer_name" key reads as None
load_config(config) ==
    [i \in DOMAIN config |->
        LET folder_config == config[i]
            printer_name == IF folder_config.printer_name = "" THEN None
                            ELSE folder_config.printer_name
        IN  HotFolderConfig(folder_config.name, folder_config.watch_path, printer_name,
                            folder_config.success_folder, folder_config.error_folder)]

\* config.json documents with one hot folder whose Success and Error folders
\* lie inside the watched folder, as in the repository's tests
OneFolderConfigs ==
    {<<[name |-> "HF1", watch_path |-> <<"w">>, printer_name |-> pn,
        success_folder |-> <<"w", "/", "S">>, error_folder |-> <<"w", "/", "E">>]>> :
        pn \in {"", "P1"}}

\* config.json documents with one hot folder whose "printer_name" is the empty
\* string or missing
DefaultConfigs ==
    {<<[name |-> "HF1", watch_path |-> <<"w">>, printer_name |-> pn,
        success_folder |-> <<"w", "/", "S">>, error_folder |-> <<"w", "/", "E">>]>> :
        pn \in {"", None}}

\* config.json documents with one hot folder whose Success and Error folders
\* are any of the watched folder and two folders inside it
RoleConfigs ==
    {<<[name |-> "HF1", watch_path |-> <<"w">>, printer_name |-> "",
        success_folder |-> s, error_folder |-> e]>> :
        s \in {<<"w">>, <<"w", "/", "S">>, <<"w", "/", "E">>},
        e \in {<<"w">>, <<"w", "/", "S">>, <<"w", "/", "E">>}}

\* the config.json document of the mixed configuration test: a hot folder
\* with a printer of its own and one whose "printer_name" is the empty string
MixedConfigs ==
    {<<[name |-> "HF1", watch_path |-> <<"w">>, printer_name |-> "P1",
        success_folder |-> <<"w", "/", "S">>, error_folder |-> <<"w", "/", "E">>],
       [name |-> "HF2", watch_path |-> <<"x">>, printer_name |-> "",
        success_folder |-> <<"x", "/", "S">>, error_folder |-> <<"x", "/", "E">>]>>}

(***************************************************************************)
(* State.                                                                  *)
(***************************************************************************)
VARIABLES
    hot_folders,     \* BatchPrintService.hot_folders
    system,          \* platform.system()
    default_printer, \* the operating system's default printer, None when unset
    fs,              \* the files on disk: path -> [size, out, reloc, seen]; out
                     \* and reloc record what the driver loop last did with the
                     \* file since the listener last put its path into
                     \* pending_files, seen that on_created was handed a creation
                     \* event for the file
    observers,       \* the handlers whose observer, of BatchPrintService.observers,
                     \* was started and has not been stopped
    events,          \* per handler, the paths of the creation events that its
                     \* observer has produced for files made in the watched folder
                     \* and has yet to hand to on_created
    budget,          \* the number of steps the environment may still take
    pending_files,   \* per handler, PrintHandler.pending_files
    pc,              \* where the driver loop of BatchPrintService.start is
    h,               \* index of the handler the driver loop is at
    si_used,         \* size of pending_files when its iteration began
    iterator,        \* the paths the iterator over pending_files has yet to yield
    existing_files,  \* process_pending_files: existing_files, as far as built
    sorted_files,    \* process_pending_files: sorted_files
    idx,             \* position of file_path in sorted_files
    attempt,         \* _is_file_ready: attempt
    size1,           \* _is_file_ready: size1
    size2,           \* _is_file_ready: size2
    changed,         \* _is_file_ready saw size1 # size2 for the file it is at
    printer_to_use,  \* print_file: printer_to_use
    success,         \* process_pending_files: success
    printed,         \* print_file calls of the current drain, in order
    missing          \* paths pending but not on disk at the last snapshot

vars == <<hot_folders, system, observers, default_printer, fs, events, budget, pending_files, pc, h,
          si_used, iterator, existing_files, sorted_files, idx, attempt, size1, size2,
          changed, printer_to_use, success, printed, missing>>

configVars == <<hot_folders, system>>
\* the list comprehension of process_pending_files
listVars == <<si_used, iterator, existing_files>>
driverVars == <<pc, h, listVars, sorted_files, idx, attempt, size1, size2, changed,
                printer_to_use, success, printed, missing>>

Handlers == DOMAIN hot_folders
config(i) == hot_folders[i]

\* the directory that holds p
dirname(p) == SubSeq(p, 1, RFind(p, "/") - 1)

\* os.path.exists(p)
exists(p) == p \in DOMAIN fs

\* process_pending_files: file_path
file_path == sorted_files[idx]

\* the process is there: it has not died of an uncaught exception, and start
\* has not returned after an interrupt
Alive == pc \notin {"crashed", "stopped"}

\* the main thread is in the driver loop of start: the process is there and
\* no KeyboardInterrupt was caught
Running == Alive /\ pc # "stopping"

\* a file nobody has processed yet
NewFile(size) == [size |-> size, out |-> "new", reloc |-> "none", seen |-> FALSE]

\* a file nobody has processed yet and whose creation event on_created has
\* been handed
SeenFile(size) == [size |-> size, out |-> "new", reloc |-> "none", seen |-> TRUE]

\* a file that was in the watched folder before the observer was started: the
\* observer reports no creation event for it
LeftoverFile(size) == [size |-> size, out |-> "unseen", reloc |-> "none", seen |-> FALSE]

\* the state after BatchPrintService.__init__ and the start of the observers,
\* with the files of disk already in the folders
InitWith(configs, systems, defaults, disks, steps) ==
    /\ hot_folders \in {load_config(c) : c \in configs}
    /\ system \in systems
    /\ default_printer \in defaults
    /\ fs \in disks
    /\ events = [i \in DOMAIN hot_folders |->
                    SetToBag({p \in DOMAIN fs : /\ dirname(p) = hot_folders[i].watch_path
                                                 /\ fs[p].out # "unseen"})]
    /\ observers = DOMAIN hot_folders
    /\ budget = steps
    /\ pending_files = [i \in DOMAIN hot_folders |-> EmptyBag]
    /\ pc = "begin"
    /\ h = 1
    /\ si_used = 0
    /\ iterator = EmptyBag
    /\ existing_files = << >>
    /\ sorted_files = << >>
    /\ idx = 0
    /\ attempt = 0
    /\ size1 = 0
    /\ size2 = 0
    /\ changed = FALSE
    /\ printer_to_use = None
    /\ success = FALSE
    /\ printed = << >>
    /\ missing = {}

Init == InitWith(OneFolderConfigs, {"Linux"}, {None}, {<< >>}, MaxEnvSteps)

(***************************************************************************)
(* The environment: programs and users that write into a watched folder.   *)
(***************************************************************************)
\* a new file appears in the watched folder of handler i
CreateFile(i, name, size) ==
    LET p == join(config(i).watch_path, name)
    IN  /\ Alive
        /\ budget > 0
        /\ ~exists(p)
        /\ fs' = [q \in DOMAIN fs \cup {p} |-> IF q = p THEN NewFile(size) ELSE fs[q]]
        /\ events' = [events EXCEPT ![i] = @ (+) SetToBag({p})]
        /\ budget' = budget - 1
        /\ UNCHANGED <<configVars, observers, default_printer, pending_files, driverVars>>

\* the files in directory d
FilesIn(d) == {p \in DOMAIN fs : dirname(p) = d}

WatchedFiles == UNION {FilesIn(config(i).watch_path) : i \in Handlers}

\* the writer of a file in a watched folder appends to it
GrowFile(p) ==
    /\ Alive
    /\ budget > 0
    /\ p \in WatchedFiles
    /\ fs' = [fs EXCEPT ![p].size = @ + 1]
    /\ budget' = budget - 1
    /\ UNCHANGED <<configVars, observers, events, default_printer, pending_files, driverVars>>

\* somebody removes a file from a watched folder
DeleteFile(p) ==
    /\ Alive
    /\ budget > 0
    /\ p \in WatchedFiles
    /\ fs' = [q \in DOMAIN fs \ {p} |-> fs[q]]
    /\ budget' = budget - 1
    /\ UNCHANGED <<configVars, observers, events, default_printer, pending_files, driverVars>>

(***************************************************************************)
(* The listener thread of a hot folder.                                    *)
(***************************************************************************)
\* a test that ignores a path of the Success folder only
InOwnFolders_successOnly(cfg, path) == Contains(cfg.success_folder, path)

\* on_created: the test that ignores a path of the Success or Error folder
InOwnFolders(cfg, path) ==
    Contains(cfg.success_folder, path) \/ Contains(cfg.error_folder, path)

\* on_created: pending_files after the handler of cfg has seen event
on_created(cfg, pending, event) ==
    IF event.is_directory THEN pending
    ELSE IF InOwnFolders(cfg, event.src_path) THEN pending
    ELSE PySetAdd(pending, event.src_path)

\* the creation events handler i may be handed: one that its observer has
\* produced for a file made in its watched folder, some time after the
\* creation and whether the file is still there or not, or one for a file in
\* its Success or Error folder (where relocation creates files), or one for
\* each of these two directories
Events(i) ==
    {[src_path |-> p, is_directory |-> FALSE] :
        p \in BagToSet(events[i])
                \cup FilesIn(config(i).success_folder)
                \cup FilesIn(config(i).error_folder)}
    \cup {[src_path |-> d, is_directory |-> TRUE] :
            d \in {config(i).success_folder, config(i).error_folder}}

\* the files on disk after on_created was handed event: the file of the event
\* is seen, and the file of a path that the event has put into the pending
\* set is one the driver loop has yet to process
Observed(before, after, event) ==
    IF ~exists(event.src_path) THEN fs
    ELSE IF ~BagIn(event.src_path, before) /\ BagIn(event.src_path, after)
    THEN [fs EXCEPT ![event.src_path] = SeenFile(@.size)]
    ELSE [fs EXCEPT ![event.src_path].seen = TRUE]

OnCreated(i, event) ==
    /\ Alive
    /\ i \in observers
    /\ pending_files' = [pending_files EXCEPT ![i] = on_created(config(i), @, event)]
    /\ fs' = Observed(pending_files[i], pending_files'[i], event)
    /\ events' = [events EXCEPT ![i] =
                    IF event.is_directory THEN @ ELSE @ (-) SetToBag({event.src_path})]
    /\ UNCHANGED <<configVars, observers, default_printer, budget, driverVars>>

(***************************************************************************)
(* The driver loop of BatchPrintService.start, one step per blocking call. *)
(***************************************************************************)
\* _is_file_ready: max_attempts
max_attempts == 3

\* for handler in self.handlers, then again after the poll sleep
NextHandler == IF h = Len(hot_folders) THEN 1 ELSE h + 1

\* process_pending_files returns: the loop of start goes on with the next handler
EndDrain ==
    /\ pc' = "begin"
    /\ h' = NextHandler
    /\ sorted_files' = << >>
    /\ idx' = 0
    /\ printed' = << >>

\* the for loop of process_pending_files takes the next file, if any
Continue ==
    /\ IF idx < Len(sorted_files)
       THEN /\ idx' = idx + 1
            /\ pc' = "size1"
            /\ UNCHANGED <<h, sorted_files, printed>>
       ELSE EndDrain
    /\ attempt' = 0
    /\ size1' = 0
    /\ size2' = 0
    /\ changed' = FALSE
    /\ success' = FALSE

\* the files on disk, with what the driver loop did noted on the file at p
Mark(p, field, value) ==
    IF exists(p) THEN [fs EXCEPT ![p][field] = value] ELSE fs

\* process_pending_files, up to the start of the list comprehension: the
\* iterator over pending_files is made
Begin ==
    /\ pc = "begin"
    /\ IF pending_files[h] = EmptyBag
       THEN /\ h' = NextHandler
            /\ UNCHANGED <<pc, listVars>>
       ELSE /\ pc' = "snapshot"
            /\ si_used' = BagCardinality(pending_files[h])
            /\ iterator' = pending_files[h]
            /\ existing_files' = << >>
            /\ UNCHANGED h
    /\ missing' = {}
    /\ UNCHANGED <<configVars, observers, events, default_printer, fs, budget, pending_files, sorted_files,
                   idx, attempt, size1, size2, changed, printer_to_use, success,
                   printed>>

\* process_pending_files: one step of the list comprehension over
\* pending_files. The iterator raises RuntimeError when the set has grown
\* under it; otherwise it yields a path, in an order of its own, and
\* os.path.exists is asked about that path; when no path is left the list is
\* sorted and the for loop is entered
Snapshot ==
    /\ pc = "snapshot"
    /\ IF BagCardinality(pending_files[h]) # si_used
       THEN /\ pc' = "crashed"
            /\ UNCHANGED <<h, listVars, sorted_files, idx, printed, missing>>
       ELSE IF iterator # EmptyBag
       THEN /\ \E f \in BagToSet(iterator) :
                 /\ iterator' = iterator (-) SetToBag({f})
                 /\ existing_files' = IF exists(f) THEN Append(existing_files, f)
                                      ELSE existing_files
                 /\ missing' = IF exists(f) THEN missing ELSE missing \cup {f}
            /\ UNCHANGED <<pc, h, si_used, sorted_files, idx, printed>>
       ELSE /\ IF existing_files = << >>
               THEN EndDrain
               ELSE /\ sorted_files' = sorted(existing_files)
                    /\ idx' = 1
                    /\ pc' = "size1"
                    /\ UNCHANGED <<h, printed>>
            /\ si_used' = 0
            /\ existing_files' = << >>
            /\ UNCHANGED <<iterator, missing>>
    /\ UNCHANGED <<configVars, observers, events, default_printer, fs, budget, pending_files,
                   attempt, size1, size2, changed, printer_to_use, success>>

\* _is_file_ready returned False: the file is left pending; sawChange: its
\* size differed between the two samples of an attempt
NotReady(sawChange) ==
    /\ Continue
    /\ fs' = Mark(file_path, "out", IF sawChange THEN "unstable" ELSE "notready")
    /\ UNCHANGED <<configVars, observers, events, default_printer, budget, pending_files, listVars,
                   printer_to_use, missing>>

\* a readiness test that does not compare the two sizes
IsReadyPair_nonzero(s1, s2) == s1 > 0

\* a readiness test that takes an empty file for ready
IsReadyPair_equal(s1, s2) == s1 = s2

\* _is_file_ready: the two sizes say the file is ready
IsReadyPair(s1, s2) == s1 = s2 /\ s1 > 0

\* _is_file_ready: size1 = os.path.getsize(file_path), after the sleep before it
Size1 ==
    /\ pc = "size1"
    /\ IF ~exists(file_path)
       THEN NotReady(changed)
       ELSE /\ size1' = fs[file_path].size
            /\ pc' = "size2"
            /\ UNCHANGED <<configVars, observers, events, default_printer, fs, budget, pending_files, h,
                           listVars, sorted_files, idx, attempt, size2, changed,
                           printer_to_use, success, printed, missing>>

\* _is_file_ready: size2 = os.path.getsize(file_path) and the comparison
Size2 ==
    /\ pc = "size2"
    /\ IF ~exists(file_path)
       THEN NotReady(changed)
       ELSE IF IsReadyPair(size1, fs[file_path].size)
       THEN /\ size2' = fs[file_path].size
            /\ pc' = "print"
            /\ UNCHANGED <<configVars, observers, events, default_printer, fs, budget, pending_files, h,
                           listVars, sorted_files, idx, attempt, size1, changed,
                           printer_to_use, success, printed, missing>>
       ELSE IF attempt + 1 < max_attempts
       THEN /\ size2' = fs[file_path].size
            /\ changed' = (changed \/ size1 # fs[file_path].size)
            /\ attempt' = attempt + 1
            /\ pc' = "size1"
            /\ UNCHANGED <<configVars, observers, events, default_printer, fs, budget, pending_files, h,
                           listVars, sorted_files, idx, size1, printer_to_use,
                           success, printed, missing>>
       ELSE NotReady(changed \/ size1 # fs[file_path].size)

\* the platforms print_file and get_default_printer have a branch for
Supported == {"Windows", "Darwin", "Linux"}

\* a get_default_printer that answers with the default printer the operating
\* system had when the service was started
get_default_printer_cached(queryFails) ==
    IF system \in Supported /\ ~queryFails THEN "D1" ELSE None

\* get_default_printer(): the default printer of the operating system, None
\* on another platform; queryFails: win32print or lpstat raised
get_default_printer(queryFails) ==
    IF system \in Supported /\ ~queryFails THEN default_printer ELSE None

\* a print_file that runs the print command without a printer
Invokes_always(printer) == system \in Supported

\* print_file: whether the platform's print command or API is invoked
Invokes(printer) == printer # None /\ system \in Supported

\* print_file returns ok for the file at hand, with printer as printer_to_use
Returned(printer, invoked, ok) ==
    /\ success' = ok
    /\ printed' = Append(printed, [file_path |-> file_path,
                                   printer |-> printer,
                                   invoked |-> invoked,
                                   ok |-> ok])
    /\ fs' = IF exists(file_path)
             THEN [fs EXCEPT ![file_path] =
                     [size |-> @.size,
                      out |-> IF ok THEN "printed" ELSE "printfailed",
                      reloc |-> "none",
                      seen |-> @.seen]]
             ELSE fs
    /\ pc' = "move"

\* print_file(file_path), up to the choice of the printer: os.path.getsize
\* raises for a file that is gone, and nothing catches it; printer_to_use is
\* the printer of the hot folder, if it has one
PrintFile ==
    /\ pc = "print"
    /\ IF ~exists(file_path)
       THEN /\ pc' = "crashed"
            /\ UNCHANGED printer_to_use
       ELSE /\ printer_to_use' = config(h).printer_name
            /\ pc' = IF config(h).printer_name = None THEN "lpstat" ELSE "invoke"
    /\ attempt' = 0
    /\ size1' = 0
    /\ size2' = 0
    /\ UNCHANGED <<configVars, observers, events, default_printer, fs, budget, pending_files, h, listVars,
                   sorted_files, idx, changed, success, printed, missing>>

\* print_file: printer_to_use = get_default_printer(), and the return of
\* False when there is none
GetDefaultPrinter ==
    /\ pc = "lpstat"
    /\ \E queryFails \in BOOLEAN :
          LET printer == get_default_printer(queryFails)
          IN  /\ printer_to_use' = printer
              /\ IF Invokes(printer)
                 THEN /\ pc' = "invoke"
                      /\ UNCHANGED <<fs, success, printed>>
                 ELSE Returned(printer, FALSE, FALSE)
    /\ UNCHANGED <<configVars, observers, events, default_printer, budget, pending_files, h, listVars,
                   sorted_files, idx, attempt, size1, size2, changed, missing>>

\* print_file: the try block. The platform's print command or API is invoked
\* and may fail (gatewayOk); on Windows the printer is first made the default
\* printer of the operating system (defaultSet: SetDefaultPrinter did not
\* raise); on another platform False is returned
Invoke ==
    /\ pc = "invoke"
    /\ \E gatewayOk \in BOOLEAN, defaultSet \in BOOLEAN :
          LET invoked == Invokes(printer_to_use)
          IN  /\ invoked \/ ~gatewayOk
              /\ gatewayOk => defaultSet
              /\ default_printer' =
                    IF invoked /\ system = "Windows" /\ defaultSet
                    THEN printer_to_use ELSE default_printer
              /\ Returned(printer_to_use, invoked, gatewayOk)
    /\ UNCHANGED <<configVars, observers, events, budget, pending_files, h, listVars, sorted_files, idx,
                   attempt, size1, size2, changed, printer_to_use, missing>>

\* move_to_success, move_to_error: the name tried when counter - 1 names are taken
Numbered(folder, filename, counter) ==
    LET name == splitext(filename)[1]
        ext == splitext(filename)[2]
    IN  join(folder, name \o <<"_">> \o str(counter) \o ext)

\* move_to_success, move_to_error: the while loop that looks for a free name
RECURSIVE FreeName(_, _, _, _)
FreeName(folder, filename, dest_path, counter) ==
    IF exists(dest_path)
    THEN FreeName(folder, filename, Numbered(folder, filename, counter), counter + 1)
    ELSE dest_path

\* a relocation that does not look for a free name
DestPath_plain(folder, path) == join(folder, basename(path))

\* move_to_success, move_to_error: dest_path when shutil.move is called
DestPath(folder, path) ==
    FreeName(folder, basename(path), join(folder, basename(path)), 1)

\* a shutil.move that returns with the source file still at its path and no
\* exception raised
Moved_copy(src, dst) ==
    [q \in DOMAIN fs \cup {dst} |->
        IF q = dst THEN [fs[src] EXCEPT !.reloc = "moved"] ELSE fs[q]]

\* shutil.move(src, dst) where dst does not exist and no exception is raised:
\* os.rename worked, or it raised OSError and copy2(src, dst) and
\* os.unlink(src) worked; the file is at dst and no longer at src
Moved(src, dst) ==
    [q \in (DOMAIN fs \ {src}) \cup {dst} |->
        IF q = dst THEN [fs[src] EXCEPT !.reloc = "moved"] ELSE fs[q]]

\* shutil.move(src, dst) where os.rename raised OSError and the fallback
\* raised after copy2 had written the first n bytes to dst: copy2 failed on
\* the way (n below the size of src) or os.unlink(src) failed (n the size of
\* src); the file is still at src and dst holds what was written
Copied(src, dst, n) ==
    [q \in DOMAIN fs \cup {dst} |->
        IF q = dst THEN [fs[src] EXCEPT !.size = n, !.reloc = "copied"]
        ELSE IF q = src THEN [fs[src] EXCEPT !.reloc = "failed"]
        ELSE fs[q]]

\* a drain that has the two folders the wrong way round
Destination_swapped(cfg, ok) == IF ok THEN cfg.error_folder ELSE cfg.success_folder

\* process_pending_files: the folder the file goes to
Destination(cfg, ok) == IF ok THEN cfg.success_folder ELSE cfg.error_folder

\* move_to_success(file_path) or move_to_error(file_path): shutil.move raises
\* when the file is gone, when nothing can be written at the destination, or
\* (moveFails) when os.rename raised OSError and then copy2 or os.unlink
\* raised, the destination holding written bytes by then if copy2 had made
\* it (destMade); the exception is logged and swallowed
Move ==
    /\ pc = "move"
    /\ \E moveFails, destMade \in BOOLEAN :
       \E written \in 0..(IF exists(file_path) THEN fs[file_path].size ELSE 0) :
          LET dest_path == DestPath(Destination(config(h), success), file_path)
          IN  fs' = IF ~exists(file_path) \/ (moveFails /\ ~destMade)
                    THEN Mark(file_path, "reloc", "failed")
                    ELSE IF moveFails
                    THEN Copied(file_path, dest_path, written)
                    ELSE Moved(file_path, dest_path)
    /\ pc' = "discard"
    /\ UNCHANGED <<configVars, observers, events, default_printer, budget, pending_files, h, listVars,
                   sorted_files, idx, attempt, size1, size2, changed, printer_to_use,
                   success, printed, missing>>

\* a drain that never removes a path
Discarded_keep(pending, path, ok) == pending

\* a drain that keeps the path of a file whose print failed
Discarded_ifPrinted(pending, path, ok) ==
    IF ok THEN PySetDiscard(pending, path) ELSE pending

\* process_pending_files: pending_files after a file was printed (ok) or not
\* and move_to_success or move_to_error has returned
Discarded(pending, path, ok) == PySetDiscard(pending, path)

\* process_pending_files: self.pending_files.discard(file_path)
Discard ==
    /\ pc = "discard"
    /\ pending_files' = [pending_files EXCEPT ![h] = Discarded(@, file_path, success)]
    /\ Continue
    /\ UNCHANGED <<configVars, observers, events, default_printer, fs, budget, listVars, printer_to_use,
                   missing>>

(***************************************************************************)
(* The specification.                                                      *)
(***************************************************************************)
\* the environment drops files named in names
Environment(names) ==
    \/ \E i \in Handlers, name \in names, size \in 0..1 : CreateFile(i, name, size)
    \/ \E p \in DOMAIN fs : GrowFile(p)
    \/ \E p \in DOMAIN fs : DeleteFile(p)

Listener == \E i \in Handlers : \E event \in Events(i) : OnCreated(i, event)

Driver ==
    \/ Begin
    \/ Snapshot
    \/ Size1
    \/ Size2
    \/ PrintFile
    \/ GetDefaultPrinter
    \/ Invoke
    \/ Move
    \/ Discard

Next == Environment(Names) \/ Listener \/ Driver

Spec == Init /\ [][Next]_vars

(***************************************************************************)
(* The service started on folders that hold files already.                 *)
(***************************************************************************)
\* a hot folder with a printer, as in the repository's tests
\* the disk that holds a file with record rec for each name, in directory d
DiskOf(d, names, rec) == [p \in {join(d, n) : n \in names} |-> rec]

\* the four files of the alphabetical sorting test lie in the watched folder and
\* nobody else touches the folder
InitSort ==
    InitWith(OneFolderConfigs, {"Linux"}, {None},
             {DiskOf(<<"w">>, SortNames, NewFile(1))}, 0)

NextSort == Listener \/ Driver

SpecSort == InitSort /\ [][NextSort]_vars

\* names that earlier relocations of a.t may have left in a folder
TakenNames ==
    {<<"a", ".", "t">>, <<"a", "_", "1", ".", "t">>, <<"a", "_", "2", ".", "t">>}

\* the Success and Error folders hold files of earlier runs, some of which the
\* operator has removed since
CollideDisks ==
    {DiskOf(<<"w", "/", "S">>, names, SeenFile(1))
       @@ DiskOf(<<"w", "/", "E">>, names, SeenFile(1)) :
        names \in SUBSET TakenNames}

InitCollide ==
    InitWith(OneFolderConfigs, {"Linux"}, {None}, CollideDisks, MaxCollideSteps)

SpecCollide == InitCollide /\ [][Next]_vars

\* two files were made in the watched folder right after the observer was
\* started, and somebody may remove them again
InitVanish ==
    InitWith(OneFolderConfigs, {"Linux"}, {None},
             {DiskOf(<<"w">>, Names, NewFile(1))}, MaxVanishSteps)

SpecVanish == InitVanish /\ [][Next]_vars

\* a file lies in the watched folder when the service starts, left there by
\* an earlier run
InitLeftover ==
    InitWith(OneFolderConfigs, {"Linux"}, {None},
             {DiskOf(<<"w">>, {<<"a", ".", "t">>}, LeftoverFile(1))}, MaxLeftoverSteps)

\* the driver loop of start keeps running and the observer thread keeps
\* delivering the events it has
SpecLeftover ==
    InitLeftover /\ [][Next]_vars /\ WF_vars(Driver) /\ WF_vars(Listener)

\* start: KeyboardInterrupt is raised in the main thread, wherever the driver
\* loop is; neither print_file nor move_to_success and move_to_error catch it
\* (they catch Exception), and the handler in start calls stop()
Interrupt ==
    /\ Running
    /\ pc' = "stopping"
    /\ UNCHANGED <<configVars, observers, events, default_printer, fs, budget, pending_files, h, listVars,
                   sorted_files, idx, attempt, size1, size2, changed, printer_to_use,
                   success, printed, missing>>

\* stop: observer.stop() and observer.join() for the next observer of
\* self.observers, the observers after it still running; after the last one
\* stop returns, and start with it
Stop ==
    /\ pc = "stopping"
    /\ LET i == CHOOSE i \in observers : \A j \in observers : i <= j
       IN  /\ observers' = observers \ {i}
           /\ pc' = IF observers = {i} THEN "stopped" ELSE "stopping"
    /\ UNCHANGED <<configVars, events, default_printer, fs, budget, pending_files, h, listVars,
                   sorted_files, idx, attempt, size1, size2, changed, printer_to_use,
                   success, printed, missing>>

NextShutdown == Next \/ Interrupt \/ Stop

\* the mixed configuration of the tests: two hot folders
InitMixed == InitWith(MixedConfigs, {"Linux"}, {"D1"}, {<< >>}, MaxTwoSteps)

\* one hot folder, or two hot folders
InitShutdown == Init \/ InitMixed

\* the service with an operator who may press Ctrl+C
SpecShutdown == InitShutdown /\ [][NextShutdown]_vars

\* the driver loop of start keeps running: it polls for ever
SpecPolling == Init /\ [][Next]_vars /\ WF_vars(Driver)

NextFilter == Environment(FilterNames) \/ Listener \/ Driver

\* the service with files whose names resemble the name of the Success folder
SpecFilter == Init /\ [][NextFilter]_vars

InitRoles == InitWith(RoleConfigs, {"Linux"}, {"D1"}, {<< >>}, MaxRoleSteps)

\* the service with any configuration load_config accepts for one hot folder
SpecRoles == InitRoles /\ [][Next]_vars

\* the printers the operating system knows
SystemPrinters == {"D1", "D2"}

\* the user makes another printer the default printer of the operating
\* system, or leaves the system without one
ChangeDefault(d) ==
    /\ Alive
    /\ budget > 0
    /\ d # default_printer
    /\ default_printer' = d
    /\ budget' = budget - 1
    /\ UNCHANGED <<configVars, observers, events, fs, pending_files, driverVars>>

InitDefault == InitWith(DefaultConfigs, {"Linux"}, {"D1"}, {<< >>}, MaxDefaultSteps)

NextDefault == Next \/ \E d \in SystemPrinters \cup {None} : ChangeDefault(d)

\* the service with a hot folder that names no printer, on a system whose
\* default printer changes
SpecDefault == InitDefault /\ [][NextDefault]_vars

\* the service with the mixed configuration
SpecMixed == InitMixed /\ [][Next]_vars

InitPlatforms == InitWith(MixedConfigs, Supported, {"D1"}, {<< >>}, MaxTwoSteps)

\* the service with the mixed configuration on each supported platform
SpecPlatforms == InitPlatforms /\ [][Next]_vars

(***************************************************************************)
(* Properties.                                                             *)
(***************************************************************************)
\* the paths print_file was called with in the current drain, in order
PrintedPaths == [k \in DOMAIN printed |-> printed[k].file_path]

\* no value occurs twice in the sequence s
NoDup(s) == \A i, j \in DOMAIN s : s[i] = s[j] => i = j

\* the file names of the paths are strictly ascending by code point
Ascending(paths) ==
    \A i, j \in DOMAIN paths :
        i < j => StrLess(basename(paths[i]), basename(paths[j]))

\* path p lies inside directory dir
Inside(dir, p) ==
    /\ Len(p) > Len(dir) + 1
    /\ SubSeq(p, 1, Len(dir) + 1) = dir \o <<"/">>

\* where the driver loop is while it is in the for loop of process_pending_files
ForLoop == {"size1", "size2", "print", "lpstat", "invoke", "move", "discard"}

\* the driver loop is in the iteration of the for loop that handles path p
Handling(p) == pc \in ForLoop /\ file_path = p

\* C1: whatever paths are pending and in whatever order the set lists them, a
\* drain considers the files, and calls print_file for them, in strictly
\* ascending order of their file names (basename, compared by code point)
C1_AscendingDispatch ==
    /\ Ascending(sorted_files)
    /\ Ascending(PrintedPaths)
    /\ \A k \in DOMAIN printed :
          \E m \in 1..idx : sorted_files[m] = printed[k].file_path

\* C1: zebra.txt, apple.txt, 123.txt and banana.txt have been dispatched in one
\* drain, as 123.txt, apple.txt, banana.txt, zebra.txt
C1_Witness ==
    /\ Len(printed) = 4
    /\ [k \in DOMAIN printed |-> basename(printed[k].file_path)] =
          << <<"1", "2", "3", ".", "t", "x", "t">>,
             <<"a", "p", "p", "l", "e", ".", "t", "x", "t">>,
             <<"b", "a", "n", "a", "n", "a", ".", "t", "x", "t">>,
             <<"z", "e", "b", "r", "a", ".", "t", "x", "t">> >>

\* C2: on_created delivered a second time for a path changes nothing: the
\* pending set holds one entry for the path, a drain lists the path once and
\* calls print_file for it at most once
C2_ObserveIdempotent ==
    /\ \A i \in Handlers : \A event \in Events(i) :
          LET once == on_created(config(i), pending_files[i], event)
              twice == on_created(config(i), once, event)
          IN  /\ twice = once
              /\ CopiesIn(event.src_path, twice) <= 1
    /\ \A i \in Handlers : \A p \in BagToSet(pending_files[i]) :
          CopiesIn(p, pending_files[i]) = 1
    /\ NoDup(sorted_files)
    /\ NoDup(PrintedPaths)

\* C2: a path is pending, its creation event can be delivered again, and the
\* drain has made its one call of print_file for it
C2_Witness ==
    /\ pc = "move"
    /\ PrintedPaths = <<file_path>>
    /\ CopiesIn(file_path, pending_files[h]) = 1
    /\ [src_path |-> file_path, is_directory |-> FALSE] \in Events(h)

\* C3 as stated: a file whose size differed between the two samples of a
\* readiness attempt is not dispatched in that drain
C3_NeverAfterChange == pc \in {"move", "discard"} => ~changed

\* print_file is about to be called: the last two samples were equal and not zero
C3_ReadyMeansStable == pc = "print" => (size1 = size2 /\ size1 > 0)

\* the readiness check of the file at hand ends without a call of print_file
GivesUp == pc \in {"size1", "size2"} /\ idx' # idx

\* the file at hand stays pending and no file is moved, removed or printed
LeftAlone ==
    /\ pending_files' = pending_files
    /\ BagIn(file_path, pending_files'[h])
    /\ DOMAIN fs' = DOMAIN fs
    /\ \A q \in DOMAIN fs : fs'[q].size = fs[q].size
    /\ \A k \in DOMAIN printed : printed[k].file_path # file_path

\* C3: print_file is called for a file only right after two samples that are
\* equal and not zero; a file for which none of the max_attempts sample pairs
\* is such is not dispatched in that drain, is neither relocated nor removed,
\* and stays in the pending set
C3_UnstableNotDispatched ==
    /\ [](C3_ReadyMeansStable)
    /\ [][(printed' # printed /\ printed' # << >>) => C3_ReadyMeansStable]_vars
    /\ [][GivesUp => LeftAlone]_vars

\* C3: a file whose size changed during its readiness check was left in the
\* pending set, not dispatched
C3_Witness ==
    \E p \in DOMAIN fs :
        /\ fs[p].out = "unstable"
        /\ BagIn(p, pending_files[1])
        /\ ~Handling(p)

\* the driver loop takes a step
DriverStep == <<pc, h, idx>>' # <<pc, h, idx>>

\* the places a file that the driver loop has processed can be in
Places(p) ==
    {"pending" : i \in {i \in Handlers : BagIn(p, pending_files[i])}}
    \cup {"success" : i \in {i \in Handlers : dirname(p) = config(i).success_folder}}
    \cup {"error" : i \in {i \in Handlers : dirname(p) = config(i).error_folder}}
    \cup {"original" : i \in {i \in Handlers :
                                /\ dirname(p) = config(i).watch_path
                                /\ ~BagIn(p, pending_files[i])
                                /\ fs[p].reloc = "failed"}}

\* a file a drain has processed is in exactly one place
C4_OnePlace ==
    \A p \in DOMAIN fs : fs[p].out # "new" => Cardinality(Places(p)) = 1

\* a step of the driver loop leaves every file where it is, or moves one file
\* to a path that was free
C4_NoCopy ==
    \/ DOMAIN fs' = DOMAIN fs
    \/ /\ pc = "move"
       /\ file_path \notin DOMAIN fs'
       /\ \E dst \in DOMAIN fs' \ DOMAIN fs :
             /\ DOMAIN fs' = (DOMAIN fs \ {file_path}) \cup {dst}
             /\ fs'[dst].size = fs[file_path].size

\* C4: a file that a drain has processed is in exactly one of the pending set,
\* the Success folder, the Error folder, or its original location after a
\* failed relocation; the driver loop never leaves a file in two places
C4_ExactlyOnePlace == [](C4_OnePlace) /\ [][DriverStep => C4_NoCopy]_vars

\* name_k.ext for the file name name.ext
Suffixed(filename, k) ==
    LET dot == RFind(filename, ".")
    IN  SubSeq(filename, 1, dot - 1) \o <<"_">> \o str(k)
            \o SubSeq(filename, dot, Len(filename))

\* the relocation of the file at hand into folder put it at dst
Relocates(folder, dst) ==
    /\ pc = "move"
    /\ pc' = "discard"
    /\ dst \in DOMAIN fs' \ DOMAIN fs
    /\ folder = Destination(config(h), success)

\* dst is name.ext if that was free, else name_k.ext for the least k >= 1 that
\* was free, and the files that were in the folder are as they were
C5_LeastFree(folder, dst) ==
    LET filename == basename(file_path)
    IN  /\ IF ~exists(join(folder, filename))
           THEN dst = join(folder, filename)
           ELSE \E k \in 1..(Cardinality(DOMAIN fs) + 1) :
                   /\ dst = join(folder, Suffixed(filename, k))
                   /\ \A j \in 1..(k - 1) : exists(join(folder, Suffixed(filename, j)))
        /\ \A q \in DOMAIN fs \ {file_path} : q \in DOMAIN fs' /\ fs'[q] = fs[q]

\* C5: a relocation of name.ext into the Success or Error folder puts the file
\* at name.ext if that is unused, otherwise at name_k.ext for the smallest
\* k >= 1 that is unused, and never overwrites or removes a file of the folder
C5_CollisionNaming ==
    [][/\ (pc = "move" /\ pc' = "discard" /\ DOMAIN fs' # DOMAIN fs) =>
              \E dst \in DOMAIN fs' : Relocates(Destination(config(h), success), dst)
       /\ \A dst \in DOMAIN fs' :
              Relocates(Destination(config(h), success), dst) =>
                  C5_LeastFree(Destination(config(h), success), dst)]_vars

\* C5: a.t was relocated to a_1.t in a folder that held a.t and a_2.t
C5_Witness ==
    \E folder \in {config(1).success_folder, config(1).error_folder} :
        /\ exists(join(folder, <<"a", ".", "t">>))
        /\ exists(join(folder, <<"a", "_", "2", ".", "t">>))
        /\ fs[join(folder, <<"a", "_", "2", ".", "t">>)].reloc = "none"
        /\ exists(join(folder, <<"a", "_", "1", ".", "t">>))
        /\ fs[join(folder, <<"a", "_", "1", ".", "t">>)].reloc = "moved"

\* the iteration of the for loop that printed or failed to print the file at p
\* is past its relocation
Relocated(p) == pc = "move" => file_path # p

\* C6 as stated: under a hot folder with a printer, a file the print command
\* printed is afterwards in the Success folder, whatever the relocation did
C6_PrintedInSuccess ==
    \A p \in DOMAIN fs :
        (/\ config(h).printer_name # None
         /\ fs[p].out = "printed"
         /\ Relocated(p)) => dirname(p) = config(h).success_folder

\* the calls of print_file of this drain had the configured printer, and ran
\* the print command with it, once for a path
C6_OncePerPath ==
    config(h).printer_name # None =>
        /\ NoDup(PrintedPaths)
        /\ \A k \in DOMAIN printed :
              /\ printed[k].printer = config(h).printer_name
              /\ system \in Supported => printed[k].invoked

\* a printed file that was relocated is in the Success folder
C6_MovedToSuccess ==
    \A p \in DOMAIN fs :
        (config(h).printer_name # None /\ fs[p].out = "printed" /\ fs[p].reloc = "moved")
            => dirname(p) = config(h).success_folder

\* the steps of one iteration for a file that is there: two equal non-zero
\* samples lead to print_file, print_file is called with the path and the
\* printer, a relocation that works takes the file out of the watched folder
\* into the Success folder, and the path leaves the pending set
C6_Iteration ==
    (config(h).printer_name # None /\ DriverStep) =>
        /\ (pc = "size2" /\ exists(file_path) /\ size1 > 0
               /\ fs[file_path].size = size1) => pc' = "print"
        /\ (pc = "print" /\ exists(file_path)) =>
              /\ pc' = "invoke"
              /\ printer_to_use' = config(h).printer_name
        /\ pc = "invoke" =>
              /\ Len(printed') = Len(printed) + 1
              /\ printed'[Len(printed')].file_path = file_path
              /\ printed'[Len(printed')].printer = config(h).printer_name
        /\ (pc = "move" /\ success /\ exists(file_path)) =>
              \/ file_path \in DOMAIN fs' /\ fs'[file_path].reloc = "failed"
              \/ /\ file_path \notin DOMAIN fs'
                 /\ \E dst \in DOMAIN fs' \ DOMAIN fs :
                       dirname(dst) = config(h).success_folder
        /\ pc = "discard" => ~BagIn(file_path, pending_files'[h])

\* C6: under a hot folder with printer P, a drain calls print_file once for a
\* file with two equal non-zero samples, and the print command runs with the
\* file's path and P; when it succeeds the path leaves the pending set, and
\* the file is in the Success folder and no longer in the watched folder
\* provided the relocation itself did not fail
C6_PrintedWithPrinter ==
    /\ [](C6_OncePerPath)
    /\ [](C6_MovedToSuccess)
    /\ [][C6_Iteration]_vars

\* C6: printer P1 printed a file, which is in the Success folder, and the
\* pending set is empty
C6_Witness ==
    /\ config(1).printer_name = "P1"
    /\ pc = "begin"
    /\ pending_files[1] = EmptyBag
    /\ FilesIn(config(1).watch_path) = {}
    /\ \E p \in FilesIn(config(1).success_folder) :
          fs[p].out = "printed" /\ fs[p].reloc = "moved"

\* there is no printer for handler i: none is configured and the operating
\* system has no default printer
NoPrinter(i) == config(i).printer_name = None /\ default_printer = None

\* C7 as stated: without a printer, a file that print_file failed for is
\* afterwards in the Error folder, whatever the relocation did
C7_FailedInError ==
    \A p \in DOMAIN fs :
        (NoPrinter(h) /\ fs[p].out = "printfailed" /\ Relocated(p))
            => dirname(p) = config(h).error_folder

\* without a printer print_file returns False and runs no print command
C7_NotInvoked ==
    NoPrinter(h) =>
        \A k \in DOMAIN printed :
            /\ printed[k].printer = None
            /\ ~printed[k].invoked
            /\ ~printed[k].ok

\* a file that print_file failed for and that was relocated is in the Error folder
C7_MovedToError ==
    \A p \in DOMAIN fs :
        (NoPrinter(h) /\ fs[p].out = "printfailed" /\ fs[p].reloc = "moved")
            => dirname(p) = config(h).error_folder

\* the steps of one iteration for a ready file that is there: print_file
\* returns False, the driver loop goes on, the relocation puts the file into
\* the Error folder when it works, and the path leaves the pending set
C7_Iteration ==
    (NoPrinter(h) /\ DriverStep) =>
        /\ (pc = "print" /\ exists(file_path)) => pc' = "lpstat"
        /\ pc = "lpstat" => (pc' = "move" /\ ~success')
        /\ (pc = "move" /\ DOMAIN fs' # DOMAIN fs) =>
              \E dst \in DOMAIN fs' \ DOMAIN fs :
                  dirname(dst) = config(h).error_folder
        /\ pc \in {"move", "discard"} => pc' # "crashed"
        /\ pc = "discard" => ~BagIn(file_path, pending_files'[h])

\* C7: under a hot folder without printer and with no default printer,
\* print_file fails for a ready file without running the print command, the
\* driver loop does not crash, the path leaves the pending set, and the file
\* is in the Error folder provided the relocation itself did not fail
C7_NoPrinterFails ==
    /\ [](C7_NotInvoked)
    /\ [](C7_MovedToError)
    /\ [][C7_Iteration]_vars

\* C7: without any printer, a file went to the Error folder, no print command
\* having run, and the driver loop is at its next round
C7_Witness ==
    /\ NoPrinter(1)
    /\ pc = "begin"
    /\ pending_files[1] = EmptyBag
    /\ \E p \in FilesIn(config(1).error_folder) :
          fs[p].out = "printfailed" /\ fs[p].reloc = "moved"

\* C8: the pending set of a hot folder holds no path inside the Success or
\* Error folder of that hot folder, although creation events fire for the
\* files that relocation puts there
C8_NoOwnFolderPending ==
    \A i \in Handlers : \A p \in BagToSet(pending_files[i]) :
        /\ ~Inside(config(i).success_folder, p)
        /\ ~Inside(config(i).error_folder, p)

\* C8: relocation has put files into the Success and the Error folder, whose
\* creation events the handler may have been handed, and a path is pending
C8_Witness ==
    /\ \E e \in Events(1) :
          ~e.is_directory /\ Inside(config(1).success_folder, e.src_path)
    /\ \E e \in Events(1) :
          ~e.is_directory /\ Inside(config(1).error_folder, e.src_path)
    /\ pending_files[1] # EmptyBag

\* a pending path whose file print_file was called for is that of the
\* iteration in progress
C9_NotRequeued ==
    \A i \in Handlers : \A p \in BagToSet(pending_files[i]) :
        (exists(p) /\ fs[p].out \in {"printed", "printfailed"})
            => (h = i /\ pc \in {"move", "discard"} /\ file_path = p)

\* C9: the path of a file that was found ready and dispatched leaves the
\* pending set whether the print succeeded or failed; a drain calls
\* print_file at most once for a path, and a file whose print failed is not
\* pending again unless the listener observes it again
C9_RemovedWhateverOutcome ==
    /\ [](NoDup(PrintedPaths))
    /\ [](C9_NotRequeued)
    /\ [][(pc = "discard" /\ DriverStep) =>
              ~BagIn(file_path, pending_files'[h])]_vars

\* C9: a file whose print failed and whose relocation failed lies in the
\* watched folder, and the drain that did it has left nothing pending
C9_Witness ==
    /\ pc = "begin"
    /\ pending_files[1] = EmptyBag
    /\ \E p \in FilesIn(config(1).watch_path) :
          fs[p].out = "printfailed" /\ fs[p].reloc = "failed"

\* C10: when a drain ends, the pending set holds none of the paths whose file
\* was gone when the drain listed the pending files
C10_MissingDropped ==
    [][(pc # "begin" /\ pc' = "begin") =>
           \A p \in missing' : ~BagIn(p, pending_files'[h])]_vars

\* the file at p is in a watched folder and no creation event was delivered for it
Unseen(p) == p \in WatchedFiles /\ fs[p].out = "unseen"

\* C11: a file that is in the watched folder and for which no creation event
\* was delivered is eventually in the pending set, or gone
C11_LeftoverFound ==
    \A p \in {join(<<"w">>, n) : n \in Names} :
        Unseen(p) ~> (~exists(p) \/ \E i \in Handlers : BagIn(p, pending_files[i]))

\* C12: when the file at hand has vanished, at whatever point of its
\* iteration, the driver loop does not die: it goes on with the next file
C12_VanishedNotFatal ==
    [][(pc \in ForLoop /\ ~exists(file_path))
           => pc' # "crashed"]_vars

\* C13: while the driver loop iterates over the pending set of a hot folder
\* (the snapshot), or removes a path from it, no listener adds to that set
C13_SnapshotExclusive ==
    [][pc = "snapshot" => pending_files'[h] = pending_files[h]]_vars

\* C14: when the service has returned after an interrupt, the drain that was
\* in flight has run to its end: a file that was dispatched has been through
\* its relocation and its path is not pending
C14_DrainCompletes ==
    pc = "stopped" =>
        \A p \in DOMAIN fs :
            fs[p].out \in {"printed", "printfailed"} =>
                /\ fs[p].reloc # "none"
                /\ \A i \in Handlers : ~BagIn(p, pending_files[i])

\* the relocation of the file at hand fails: shutil.move raised
RelocationFails ==
    /\ pc = "move"
    /\ pc' = "discard"
    /\ exists(file_path) => file_path \in DOMAIN fs'

\* a file whose relocation failed is pending only while its iteration ends
C15_NotPendingAgain ==
    \A i \in Handlers : \A p \in BagToSet(pending_files[i]) :
        (exists(p) /\ fs[p].reloc = "failed")
            => (h = i /\ pc = "discard" /\ file_path = p)

\* what the driver loop dispatches or relocates is not a file whose relocation
\* failed
C15_NotHandledAgain ==
    (pc \in {"print", "lpstat", "invoke", "move"} /\ exists(file_path))
        => fs[file_path].reloc # "failed"

\* C15: a relocation that fails, after a print that succeeded or failed, is
\* swallowed: the driver loop goes on, the file stays at its path, the path
\* leaves the pending set, and no later drain dispatches or relocates the file
\* unless a creation event puts its path into the pending set again
C15_FailedRelocationFinal ==
    /\ [](C15_NotPendingAgain)
    /\ [](C15_NotHandledAgain)
    /\ [][RelocationFails =>
              /\ \A q \in DOMAIN fs : q \in DOMAIN fs' /\ fs'[q].size = fs[q].size
              /\ exists(file_path) => fs'[file_path].reloc = "failed"]_vars
    /\ [][(pc = "discard" /\ DriverStep) =>
              /\ pc' \in {"size1", "begin"}
              /\ ~BagIn(file_path, pending_files'[h])]_vars

\* C15: a printed file whose relocation failed lies in the watched folder, its
\* path not pending, while a later drain is at another file
C15_Witness ==
    /\ pc \in {"size1", "size2", "print", "move"}
    /\ \E p \in FilesIn(config(1).watch_path) :
          /\ fs[p].out = "printed"
          /\ fs[p].reloc = "failed"
          /\ ~BagIn(p, pending_files[1])
          /\ p # file_path
          /\ \A k \in DOMAIN printed : printed[k].file_path # p

\* the file at p was left in the watched folder by a relocation that failed,
\* and the iteration that did it is over
LeftInPlace(p) ==
    /\ p \in WatchedFiles
    /\ fs[p].reloc = "failed"
    /\ ~Handling(p)

\* C16: a file whose relocation failed is pending again later on, so that a
\* drain relocates it, unless somebody removes it
C16_RetriedLater ==
    \A p \in {join(<<"w">>, n) : n \in Names} :
        LeftInPlace(p) ~>
            (~exists(p) \/ \E i \in Handlers : BagIn(p, pending_files[i]))

\* C17: a creation event for a file of the watched folder whose path is not
\* inside the Success or Error folder of the hot folder puts the path into
\* the pending set, whatever the file is called
C17_EveryFileObserved ==
    \A i \in Handlers : \A event \in Events(i) :
        (/\ ~event.is_directory
         /\ dirname(event.src_path) = config(i).watch_path
         /\ ~Inside(config(i).success_folder, event.src_path)
         /\ ~Inside(config(i).error_folder, event.src_path))
            => BagIn(event.src_path, on_created(config(i), pending_files[i], event))

\* the files print_file was called for and whose relocation has not ended
InFlight == {p \in DOMAIN fs : fs[p].out \in {"printed", "printfailed"} /\ fs[p].reloc = "none"}

\* a listener thread of handler i takes a step
ListenerStep(i) == \E event \in Events(i) : OnCreated(i, event)

\* C18: at most one file of all hot folders is between the start of its
\* dispatch and the end of its relocation, namely the file the driver loop is
\* at; a step of a listener only adds to the pending set of its own hot
\* folder and leaves the driver loop where it is
C18_OneFileInFlight ==
    /\ [](Cardinality(InFlight) <= 1)
    /\ [](InFlight # {} => pc = "move" /\ InFlight = {file_path})
    /\ [](pc = "move" => dirname(file_path) = config(h).watch_path)
    /\ [][\A i \in Handlers : ListenerStep(i) =>
              /\ \A p \in BagToSet(pending_files[i]) : BagIn(p, pending_files'[i])
              /\ \A j \in Handlers \ {i} : pending_files'[j] = pending_files[j]
              /\ driverVars' = driverVars]_vars

\* C18: a file of the second hot folder is printed and not yet relocated while
\* a file of the first hot folder is pending
C18_Witness ==
    /\ pc = "move"
    /\ h = 2
    /\ InFlight = {file_path}
    /\ pending_files[1] # EmptyBag
    /\ pending_files[2] # EmptyBag

\* C19: the watched folder, the Success folder and the Error folder of a
\* running hot folder are three different directories
C19_DistinctFolders ==
    \A i \in Handlers :
        /\ config(i).success_folder # config(i).watch_path
        /\ config(i).error_folder # config(i).watch_path
        /\ config(i).success_folder # config(i).error_folder

\* the print_file call that has just returned
LastPrint == printed'[Len(printed')]

\* C20: a hot folder whose printer name is the empty string is the same hot
\* folder as one whose printer name is missing, and each of its print_file
\* calls asks for the default printer of the operating system and uses the
\* one the system has at that moment, or fails for lack of one
C20_DefaultAtDispatch ==
    /\ [](\A c \in DefaultConfigs : load_config(c) = hot_folders)
    /\ [](\A i \in Handlers : config(i).printer_name = None)
    /\ [][(pc = "print" /\ DriverStep /\ exists(file_path)) => pc' = "lpstat"]_vars
    /\ [][(pc = "lpstat" /\ DriverStep) =>
              /\ printer_to_use' \in {default_printer, None}
              /\ printer_to_use' = None <=> pc' = "move"
              /\ pc' = "move" => (LastPrint.printer = None /\ ~LastPrint.invoked
                                     /\ ~LastPrint.ok)]_vars
    /\ [][(pc = "invoke" /\ DriverStep) =>
              /\ LastPrint.printer = printer_to_use
              /\ LastPrint.invoked]_vars

\* C20: one drain has printed a file with the default printer D1 and then,
\* the default having changed, another file with the default printer D2
C20_Witness ==
    /\ Len(printed) = 2
    /\ printed[1].printer = "D1" /\ printed[1].ok
    /\ printed[2].printer = "D2" /\ printed[2].ok
    /\ default_printer = "D2"

\* C21: of the mixed configuration, the first hot folder has the printer name
\* of its configuration and the second has the empty string as printer name
C21_EmptyNameStored ==
    /\ hot_folders[1].printer_name = "P1"
    /\ hot_folders[2].printer_name = ""

\* the file at p has been observed, is pending and is not empty
Taken(p) ==
    /\ exists(p)
    /\ fs[p].size > 0
    /\ \E i \in Handlers : BagIn(p, pending_files[i])

\* C22: a pending file that is not empty is dispatched later on and leaves the
\* watched folder for the Success or Error folder (or its relocation is tried
\* and fails), unless somebody removes it
C22_EventuallyDispatched ==
    \A p \in {join(<<"w">>, n) : n \in Names} :
        Taken(p) ~> (~exists(p) \/ fs[p].reloc = "failed")

\* a step of _is_file_ready that sees the file gone
StatFails == pc \in {"size1", "size2"} /\ ~exists(file_path) /\ DriverStep

\* the second sample of a pair is taken
SecondSample == pc = "size2" /\ exists(file_path) /\ DriverStep

\* the pair of samples at hand: both sizes equal and not zero
GoodPair == size1 = fs[file_path].size /\ size1 > 0

\* C23: _is_file_ready answers True exactly at the first pair of samples, of at
\* most max_attempts pairs, whose two sizes are equal and not zero; a sample
\* that cannot be taken makes it answer False at once; after max_attempts
\* pairs it answers False; a file that is not ready stays pending and is
\* neither dispatched nor relocated, so a file whose samples are all zero
\* never is
C23_ReadyIffStablePair ==
    /\ [](attempt < max_attempts)
    /\ [][SecondSample => (pc' = "print" <=> GoodPair)]_vars
    /\ [][(SecondSample /\ ~GoodPair /\ attempt + 1 < max_attempts) =>
              (pc' = "size1" /\ idx' = idx /\ attempt' = attempt + 1)]_vars
    /\ [][(SecondSample /\ ~GoodPair /\ attempt + 1 = max_attempts) => GivesUp]_vars
    /\ [][StatFails => GivesUp]_vars
    /\ [][GivesUp => LeftAlone]_vars
    /\ [][(pc # "print" /\ pc' = "print") => SecondSample]_vars
    /\ [](pc = "print" => (size1 > 0 /\ size2 = size1))

\* C23: the third pair of samples of a file is equal and not zero, after an
\* earlier pair that differed
C23_Witness == pc = "print" /\ attempt = max_attempts - 1 /\ changed

\* the paths of the list the drain in progress works on
Listed == {sorted_files[k] : k \in DOMAIN sorted_files}

\* a drain is in progress and p is pending without being in its list
Late(p) ==
    /\ pc \in {"snapshot"} \cup ForLoop
    /\ BagIn(p, pending_files[h])
    /\ p \notin Listed

\* C24: a path that is put into the pending set while a drain is in progress
\* is in the list of a later drain, unless its file is gone by then
C24_NextDrainTakesIt ==
    \A p \in {join(<<"w">>, n) : n \in Names} :
        Late(p) ~> (~exists(p) \/ p \in Listed)

\* the file at p is a new one, made after the file the driver loop is at was
\* relocated away from p, and on_created was handed its creation event
Replaced(p) ==
    /\ pc = "discard"
    /\ file_path = p
    /\ exists(p)
    /\ fs[p].out = "new"
    /\ fs[p].seen

\* C25: a file that was created at the path of the file at hand after that one
\* was relocated, and whose creation event was delivered before the driver
\* loop removes the path from the pending set, has its path in the pending
\* set after the removal
C25_ObservationKept ==
    [][\A p \in WatchedFiles :
          (Replaced(p) /\ DriverStep) => BagIn(p, pending_files'[h])]_vars

\* C26: a print_file call leaves the default printer of the operating system
\* as it is, on every supported platform
C26_DefaultUntouched ==
    [][(pc \in {"print", "lpstat", "invoke"} /\ DriverStep)
          => default_printer' = default_printer]_vars

=============================================================================
